---- MODULE Spec2Model ----
(***************************************************************************)
(* Tool-call middleware chain and response envelopes of the Tavily search  *)
(* MCP server: src/mcp_servers/base_server.py (BaseMCPServer) and          *)
(* src/mcp_servers/tavily_search/server.py (TavilyMCPServer); the envelope *)
(* builders of src/mcp_servers/base_mcp_server.py beside them.             *)
(* Construction of servers and create_app of the three drafts of the base  *)
(* class, the search clients and the agent factories have specifications   *)
(* of their own (SpecServer, SpecCalls).                                   *)
(*                                                                         *)
(* One invocation is a coroutine that runs without interruption from one   *)
(* suspension point to the next.  The stages of the chain call each other  *)
(* with plain awaits, so the only place where the event loop can switch to *)
(* another invocation is the await inside the wrapped call (the provider   *)
(* call of the tool).  `running` is the invocation the event loop is       *)
(* executing, 0 when the loop is idle.                                     *)
(***************************************************************************)
EXTENDS Integers, Sequences, FiniteSets, TLC

\* ------------------------------------------------------------------------
\* Bounds
\* ------------------------------------------------------------------------
\* number of invocation slots, i.e. of tool calls that can be in flight
NumInv == 2
\* largest value of the monotonic clock read by time.perf_counter()
MaxClock == 2

Inv == 1..NumInv

\* ------------------------------------------------------------------------
\* Values
\* ------------------------------------------------------------------------
\* Python's None for an optional field, and a supplied value v
None == << >>
Some(v) == << v >>

\* the tools registered by TavilyMCPServer._register_tools
Tools == {"search_web", "search_finance", "search_news"}

\* an exception object: its class and its args tuple
Fault(cls, args) == [cls |-> cls, args |-> args]

\* faults the external provider call can raise
ProviderFaults == { Fault("ValueError", <<"timeout">>),
                    Fault("KeyError", <<"results">>),
                    Fault("Exception", << >>) }

\* result lists the external provider can return
ProviderResults == { <<"A">> }

\* raised by the tool dispatch of the framework before the tool function
\* runs (arguments that do not validate against the tool's signature)
DispatchFault == Fault("ToolError", <<"invalid arguments">>)

\* attribute access on None: `logger.warning(...)` with logger = None
NoneTypeFault == Fault("AttributeError", <<"'NoneType' object has no attribute 'warning'">>)

\* raised by a failing get_state / set_state of the invocation context
StateFault == Fault("RuntimeError", <<"context state unavailable">>)

\* asyncio.CancelledError, thrown into a task at its await when the caller
\* cancels it or its timeout expires
CancelledFault == Fault("CancelledError", << >>)

\* a bare `except:` also catches cancellation
CaughtByExcept_bare(fault) == TRUE

\* `except Exception`: catches every fault that derives from Exception;
\* CancelledError derives from BaseException only
CaughtByExcept(fault) == fault.cls # "CancelledError"

\* str(error) for an exception: the empty string without args, the repr of
\* the key for a KeyError, the text of the single argument otherwise
str(error) ==
    IF Len(error.args) = 0 THEN ""
    ELSE IF error.cls = "KeyError" THEN "'" \o error.args[1] \o "'"
    ELSE error.args[1]

\* outcome of a call: nothing yet, a returned value or a raised fault
NoOutcome == [kind |-> "none"]
Return(v) == [kind |-> "return", val |-> v]
Raise(f) == [kind |-> "raise", fault |-> f]

\* ------------------------------------------------------------------------
\* Envelopes
\* ------------------------------------------------------------------------
\* a Python value passed as data: its type and its literal
PyVal(type, repr) == [type |-> type, repr |-> repr]

\* the serializer keeps truthy values only (`if value:` for `is not None`)
model_dump_truthy(model) ==
    LET truthy(f) ==
            CASE f = "success" -> model[f][1]
              [] f \in {"data", "daat"} -> model[f][1].repr \notin {"", "0", "False", "[]"}
              [] OTHER -> model[f][1] # ""
    IN [k \in {f \in DOMAIN model : model[f] # None /\ truthy(f)} |-> model[k][1]]

\* BaseModel.model_dump(exclude_none=True): the fields whose value is not None
model_dump(model) ==
    [k \in {f \in DOMAIN model : model[f] # None} |-> model[k][1]]

\* StandardErrorResponse(error=..., query=..., func_name=..., success=False)
StandardErrorResponse(error, query, func_name, success) ==
    [success |-> Some(success), query |-> Some(query),
     error |-> Some(error), func_name |-> func_name]

\* a missing func_name replaced by a placeholder
create_error_response_placeholder(error, query, func_name) ==
    model_dump(StandardErrorResponse(str(error), query,
        IF func_name = None THEN Some("unknown") ELSE func_name, FALSE))

\* BaseMCPServer.create_error_response; func_name is None or Some(name)
create_error_response(error, query, func_name) ==
    model_dump(StandardErrorResponse(str(error), query, func_name, FALSE))

\* StandardResponse(success=..., query=..., data=..., error=...); data and
\* error are None or Some(value)
StandardResponse(success, query, data, error) ==
    [success |-> Some(success), query |-> Some(query), data |-> data, error |-> error]

\* the data passed under a misspelt keyword: it lands in an extra field
create_standard_response_daat(success, query, data, error) ==
    model_dump([success |-> Some(success), query |-> Some(query),
                data |-> None, error |-> error, daat |-> data])

\* BaseMCPServer.create_standard_response of base_server.py
create_standard_response(success, query, data, error) ==
    model_dump(StandardResponse(success, query, data, error))

\* a call with a keyword the function does not declare
TypeErrorFault == Fault("TypeError", <<"got an unexpected keyword argument">>)

\* no additional keyword arguments
NoExtra == [k \in {} |-> ""]

\* create_standard_response(success=, query=, data=, error=, **extra) as a
\* call: the signature of base_server.py declares no **kwargs
create_standard_response_call(success, query, data, error, extra) ==
    IF DOMAIN extra # {}
    THEN Raise(TypeErrorFault)
    ELSE Return(create_standard_response(success, query, data, error))

\* create_error_response(error=, query=, func_name=, **extra) as a call: the
\* signature of base_server.py declares no **kwargs
create_error_response_call(error, query, func_name, extra) ==
    IF DOMAIN extra # {}
    THEN Raise(TypeErrorFault)
    ELSE Return(create_error_response(error, query, func_name))

\* base_mcp_server.py, BaseMCPServer.create_standard_response: the model is
\* built with daat=data, so data keeps its default and the value lands in
\* the extra field daat; **kwargs become extra fields
mcp_create_standard_response(success, query, data, error, kwargs) ==
    model_dump(
        [k \in {"success", "query", "data", "error", "daat"} \cup DOMAIN kwargs |->
            CASE k = "success" -> Some(success)
              [] k = "query" -> Some(query)
              [] k = "data" -> None
              [] k = "error" -> error
              [] k = "daat" -> data
              [] OTHER -> Some(kwargs[k])])

\* base_mcp_server.py, ErrorResponse built by BaseMCPServer.handle_error: the
\* model has the fields query, error and func_name; the query comes from
\* context.get("query", ""), the rest of context becomes extra fields
handle_error(func_name, error, context) ==
    model_dump(
        [k \in {"query", "error", "func_name"} \cup DOMAIN context |->
            CASE k = "query" -> Some(IF "query" \in DOMAIN context THEN context["query"] ELSE "")
              [] k = "error" -> Some(str(error))
              [] k = "func_name" -> Some(func_name)
              [] OTHER -> Some(context[k])])

\* ------------------------------------------------------------------------
\* Events of one invocation, in program order
\* ------------------------------------------------------------------------
Ev(name, by) == [ev |-> name, by |-> by, lvl |-> "", txt |-> "", arg |-> "", t |-> 0]
LogRec(by, lvl, txt, arg) == [ev |-> "log", by |-> by, lvl |-> lvl, txt |-> txt, arg |-> arg, t |-> 0]
PerfEv(by, t) == [ev |-> "perf_counter", by |-> by, lvl |-> "", txt |-> "", arg |-> "", t |-> t]

\* ------------------------------------------------------------------------
\* Library behaviour the chain relies on
\* ------------------------------------------------------------------------
\* keyword arguments logging.Logger.error / info / warning accept; any other
\* keyword makes the call raise TypeError before a record is created
LoggerKwargs == {"exc_info", "stack_info", "stacklevel", "extra"}

\* Context.get_state(key): the stored value, None when the key was never set
get_state(st, key) == IF key \in DOMAIN st THEN Some(st[key]) ELSE None

\* Context.set_state(key, value)
set_state(st, key, value) ==
    [k \in (DOMAIN st) \cup {key} |-> IF k = key THEN value ELSE st[k]]

\* "{value}" inside an f-string: None prints as None, a float with its fraction
Fmt(opt) == IF opt = None THEN "None" ELSE ToString(opt[1]) \o ".0"

\* "{meta}" inside an f-string, for the dict built by LoggingMiddleware
FmtMeta(meta) ==
    "{'request_id': " \o meta.request_id \o ", 'client_id': " \o meta.client_id
        \o ", 'session_id': " \o meta.session_id \o "}"

\* ------------------------------------------------------------------------
\* The chain
\* ------------------------------------------------------------------------
\* the stages added in the opposite order
install_core_middlewares_reversed ==
    << "LoggingMiddleware", "TimingMiddleware", "ErrorHandlingMiddleware" >>

\* the logging stage added before the timing stage
install_core_middlewares_swapped ==
    << "ErrorHandlingMiddleware", "LoggingMiddleware", "TimingMiddleware" >>

\* BaseMCPServer._install_core_middlewares: add_middleware order; the
\* middleware added first is the outermost stage
install_core_middlewares ==
    << "ErrorHandlingMiddleware", "TimingMiddleware", "LoggingMiddleware" >>

ChainLen == Len(install_core_middlewares)

\* the code running at depth k of the call stack of an invocation:
\* 0 the caller, 1..ChainLen a stage, ChainLen + 1 the wrapped call
StageAt(k) ==
    IF k \in 1..ChainLen THEN install_core_middlewares[k]
    ELSE IF k = 0 THEN "caller" ELSE "call_tool"

VARIABLES
    loggerAttached, \* getattr(server, "logger", None) is a logger
    instr,          \* context-state operations that fail
    now,            \* time.perf_counter()
    running,        \* invocation the event loop executes, 0 if none
    phase,          \* per invocation: idle, down, await, up, done
    at,             \* per invocation: depth of the stage in control
    req,            \* per invocation: the inbound request
    start,          \* per invocation: TimingMiddleware's local `start`
    ctxState,       \* per invocation: state of its fastmcp_context
    provOut,        \* per invocation: outcome of the provider call
    callOut,        \* per invocation: outcome of the wrapped call
    res,            \* per invocation: outcome travelling up the chain
    trace,          \* per invocation: its events, in program order
    bcall,          \* the latest call of an envelope builder and its outcome
    blog,           \* records the logger received from envelope builders
    srv,            \* per draft of the base class: its logger and latest instance
    client          \* the search client constructed last

vars == << loggerAttached, instr, now, running, phase, at, req, start,
           ctxState, provOut, callOut, res, trace, bcall, blog, srv, client >>

\* the state of the server and of its invocations
chainVars == << loggerAttached, instr, now, running, phase, at, req, start,
                ctxState, provOut, callOut, res, trace >>

\* the state touched by direct calls of the envelope builders
envVars == << bcall, blog >>

NoCall == [fn |-> "none"]

\* servers constructed and clients constructed outside the invocations
lifeVars == << srv, client >>

\* the three drafts of BaseMCPServer
Drafts == {"base_server.py", "base_mcp_server.py", "base_server/base_server.py"}

\* no server constructed from a draft yet: the logger named after the class
\* has no handler
NoServer == [made |-> 0, handlers |-> 0, flag |-> FALSE, routes |-> 0, apps |-> 0]

NoClient == [cls |-> "none"]

NoReq == [tool |-> "", query |-> "", valid |-> FALSE]

\* request, client and session identifiers of the context of invocation i
Meta(i) ==
    [request_id |-> ToString(i), client_id |-> "client-" \o ToString(i),
     session_id |-> "session-" \o ToString(i)]

\* inbound requests: one per tool whose arguments validate, and one whose
\* arguments do not
Requests ==
    { [tool |-> "search_web", query |-> "weather today", valid |-> TRUE],
      [tool |-> "search_finance", query |-> "AAPL", valid |-> TRUE],
      [tool |-> "search_news", query |-> "", valid |-> TRUE],
      [tool |-> "search_web", query |-> "", valid |-> FALSE] }

InitInv ==
    /\ now = 0
    /\ running = 0
    /\ phase = [i \in Inv |-> "idle"]
    /\ at = [i \in Inv |-> 0]
    /\ req = [i \in Inv |-> NoReq]
    /\ start = [i \in Inv |-> 0]
    /\ ctxState = [i \in Inv |-> << >>]
    /\ provOut = [i \in Inv |-> NoOutcome]
    /\ callOut = [i \in Inv |-> NoOutcome]
    /\ res = [i \in Inv |-> NoOutcome]
    /\ trace = [i \in Inv |-> << >>]
    /\ bcall = NoCall
    /\ blog = << >>
    /\ srv = [d \in Drafts |-> NoServer]
    /\ client = NoClient

\* the server after BaseMCPServer.__init__; the logger attribute the
\* middleware looks up on the FastMCP object may have been removed
Init ==
    /\ loggerAttached \in BOOLEAN
    /\ instr = {}
    /\ InitInv

\* as Init, with a context whose get_state / set_state raise
InitInstr ==
    /\ loggerAttached \in BOOLEAN
    /\ instr \in SUBSET {"get_state", "set_state"}
    /\ InitInv

\* control passes from depth k to the stage that called it
PhaseAfterReturn(k) == IF k - 1 = 0 THEN "done" ELSE "up"


\* ------------------------------------------------------------------------
\* ErrorHandlingMiddleware.on_call_tool
\* ------------------------------------------------------------------------
\* the except block, entered for a fault `except Exception` catches: look
\* the logger up and log the fault; a failure of
\* this block (TypeError of the logger call, AttributeError on None) is
\* swallowed by the inner `except Exception: pass`
ErrorHandlingRecords(logger, error) ==
    IF ~CaughtByExcept(error) THEN << >>
    ELSE IF logger
    THEN IF {"exec_info"} \subseteq LoggerKwargs
         THEN << LogRec("ErrorHandlingMiddleware", "ERROR", "ToolError", str(error)) >>
         ELSE << Ev("swallowed", "ErrorHandlingMiddleware") >>
    ELSE << Ev("swallowed", "ErrorHandlingMiddleware") >>

\* the stage answers a fault with an error envelope instead of re-raising
ErrorHandlingResult_envelope(r) ==
    IF r.kind = "raise" THEN Return(create_error_response(r.fault, "", None)) ELSE r

\* what the stage hands to its caller for the outcome r of call_next:
\* `return await call_next(...)`, or the bare `raise` of the except block
ErrorHandlingResult(r) == r

\* ------------------------------------------------------------------------
\* TimingMiddleware.on_call_tool
\* ------------------------------------------------------------------------
\* the duration left in seconds
DurationMs_seconds(t, st) == t - st

\* duration_ms = (time.perf_counter() - start) * 1000.0
DurationMs(t, st) == (t - st) * 1000

\* the finally block: set_state, a failure of which is swallowed
TimingRecords(t, fails) ==
    << PerfEv("TimingMiddleware", t) >> \o
    ( IF "set_state" \in fails
      THEN << Ev("swallowed", "TimingMiddleware") >>
      ELSE << Ev("set_state", "TimingMiddleware") >> )

\* the duration kept in one field shared by all invocations
TimingState_shared(cs, i, t, st, fails) ==
    IF "set_state" \in fails THEN cs
    ELSE [cs EXCEPT ![1] = set_state(@, "duration_ms", DurationMs(t, st))]

\* the context state of invocation i after the finally block
TimingState(cs, i, t, st, fails) ==
    IF "set_state" \in fails THEN cs
    ELSE [cs EXCEPT ![i] = set_state(@, "duration_ms", DurationMs(t, st))]

\* a failing set_state escapes the finally block and replaces the outcome
TimingResult_unguarded(r, fails) ==
    IF "set_state" \in fails THEN Raise(StateFault) ELSE r

\* the finally block leaves the outcome r of call_next as it is
TimingResult(r, fails) == r

\* ------------------------------------------------------------------------
\* LoggingMiddleware.on_call_tool
\* ------------------------------------------------------------------------
\* before call_next: the "start" record, or logger.warning on None
LoggingEnterRecords(logger, meta) ==
    IF logger
    THEN << LogRec("LoggingMiddleware", "INFO", "Start Processing Tool Request", FmtMeta(meta)) >>
    ELSE << >>

\* the fault raised before call_next, if any
LoggingEnterFault(logger) == IF logger THEN None ELSE Some(NoneTypeFault)

\* the "end" record emitted in a `finally`, whatever call_next did
LoggingExitRecords_always(logger, r, st, fails) ==
    IF logger
    THEN << Ev("get_state", "LoggingMiddleware"),
            LogRec("LoggingMiddleware", "INFO", "Successfully Processed Tool Request",
                   Fmt(get_state(st, "duration_ms"))) >>
    ELSE << >>

\* after call_next returned: the "end" record with the duration read from
\* the context state; a failure of get_state is swallowed
LoggingExitRecords(logger, r, st, fails) ==
    IF r.kind = "return" /\ logger
    THEN IF "get_state" \in fails
         THEN << Ev("swallowed", "LoggingMiddleware") >>
         ELSE << Ev("get_state", "LoggingMiddleware"),
                 LogRec("LoggingMiddleware", "INFO", "Successfully Processed Tool Request",
                        Fmt(get_state(st, "duration_ms"))) >>
    ELSE << >>

\* `return response`, or `except Exception: raise`
LoggingResult(r, fails) == r

\* ------------------------------------------------------------------------
\* The search tools of TavilyMCPServer
\* ------------------------------------------------------------------------
\* every tool passes the func_name of the first one
FuncName_copied(tool) == "search_web"

\* the func_name literal each tool passes to create_error_response
FuncName(tool) ==
    CASE tool = "search_web" -> "search_web"
      [] tool = "search_finance" -> "search_finance"
      [] tool = "search_news" -> "search_news"

\* what the provider returns for a query
ProviderResult(query, results) == [query |-> query, results |-> results]

ProviderOutcomes(query) ==
    { Return(ProviderResult(query, r)) : r \in ProviderResults }
        \cup { Raise(f) : f \in ProviderFaults }

\* a search tool that logs the provider fault and lets it go on
search_tool_reraise(tool, query, out) ==
    IF out.kind = "return" THEN Return(out.val) ELSE Raise(out.fault)

\* the try / except of a search tool, for the outcome of the provider call
search_tool(tool, query, out) ==
    IF out.kind = "return"
    THEN Return(out.val)
    ELSE IF CaughtByExcept(out.fault)
         THEN Return(create_error_response(out.fault, query, Some(FuncName(tool))))
         ELSE Raise(out.fault)

\* a search tool that calls the provider a second time after a fault
search_tool_records_retry(tool, out) ==
    IF out.kind = "return"
    THEN << LogRec(tool, "INFO", "Search results", ToString(Cardinality(DOMAIN out.val))) >>
    ELSE IF CaughtByExcept(out.fault)
         THEN << Ev("provider", tool),
                 LogRec(tool, "ERROR", "Error in '" \o tool \o "'", str(out.fault)) >>
         ELSE << >>

\* the records a search tool logs after the provider call
search_tool_records(tool, out) ==
    IF out.kind = "return"
    THEN << LogRec(tool, "INFO", "Search results", ToString(Cardinality(DOMAIN out.val))) >>
    ELSE IF CaughtByExcept(out.fault)
         THEN << LogRec(tool, "ERROR", "Error in '" \o tool \o "'", str(out.fault)) >>
         ELSE << >>

\* ------------------------------------------------------------------------
\* Actions
\* ------------------------------------------------------------------------
Down(i, name) == running = i /\ phase[i] = "down" /\ StageAt(at[i]) = name
Up(i, name) == running = i /\ phase[i] = "up" /\ StageAt(at[i]) = name

\* an inbound tools/call request enters the chain
CallTool(i) ==
    /\ running = 0
    /\ phase[i] = "idle"
    /\ \E r \in Requests : req' = [req EXCEPT ![i] = r]
    /\ running' = i
    /\ phase' = [phase EXCEPT ![i] = "down"]
    /\ at' = [at EXCEPT ![i] = 1]
    /\ UNCHANGED envVars
    /\ UNCHANGED lifeVars
    /\ UNCHANGED << loggerAttached, instr, now, start, ctxState, provOut, callOut, res, trace >>

ErrorHandlingEnter(i) ==
    /\ Down(i, "ErrorHandlingMiddleware")
    /\ trace' = [trace EXCEPT ![i] = Append(@, Ev("enter", "ErrorHandlingMiddleware"))]
    /\ at' = [at EXCEPT ![i] = @ + 1]
    /\ UNCHANGED envVars
    /\ UNCHANGED lifeVars
    /\ UNCHANGED << loggerAttached, instr, now, running, phase, req, start, ctxState, provOut, callOut, res >>

TimingEnter(i) ==
    /\ Down(i, "TimingMiddleware")
    /\ start' = [start EXCEPT ![i] = now]
    /\ trace' = [trace EXCEPT ![i] = @ \o << Ev("enter", "TimingMiddleware"), PerfEv("TimingMiddleware", now) >>]
    /\ at' = [at EXCEPT ![i] = @ + 1]
    /\ UNCHANGED envVars
    /\ UNCHANGED lifeVars
    /\ UNCHANGED << loggerAttached, instr, now, running, phase, req, ctxState, provOut, callOut, res >>

LoggingEnter(i) ==
    /\ Down(i, "LoggingMiddleware")
    /\ trace' = [trace EXCEPT ![i] = (@ \o << Ev("enter", "LoggingMiddleware") >>)
                                        \o LoggingEnterRecords(loggerAttached, Meta(i))]
    /\ IF LoggingEnterFault(loggerAttached) = None
       THEN /\ at' = [at EXCEPT ![i] = @ + 1]
            /\ UNCHANGED << phase, res >>
       ELSE /\ res' = [res EXCEPT ![i] = Raise(LoggingEnterFault(loggerAttached)[1])]
            /\ phase' = [phase EXCEPT ![i] = PhaseAfterReturn(at[i])]
            /\ at' = [at EXCEPT ![i] = @ - 1]
    /\ UNCHANGED envVars
    /\ UNCHANGED lifeVars
    /\ UNCHANGED << loggerAttached, instr, now, running, req, start, ctxState, provOut, callOut >>

\* the innermost call_next: the arguments do not validate, no tool runs
DispatchInvalid(i) ==
    /\ Down(i, "call_tool")
    /\ ~req[i].valid
    /\ callOut' = [callOut EXCEPT ![i] = Raise(DispatchFault)]
    /\ res' = [res EXCEPT ![i] = Raise(DispatchFault)]
    /\ phase' = [phase EXCEPT ![i] = PhaseAfterReturn(at[i])]
    /\ at' = [at EXCEPT ![i] = @ - 1]
    /\ UNCHANGED envVars
    /\ UNCHANGED lifeVars
    /\ UNCHANGED << loggerAttached, instr, now, running, req, start, ctxState, provOut, trace >>

\* the innermost call_next: the tool function runs up to its provider call
ToolBegin(i) ==
    /\ Down(i, "call_tool")
    /\ req[i].valid
    /\ trace' = [trace EXCEPT ![i] = @ \o
          << Ev("tool", req[i].tool),
             LogRec(req[i].tool, "INFO", "Calling '" \o req[i].tool \o "' tool with query", req[i].query),
             Ev("provider", req[i].tool) >>]
    /\ phase' = [phase EXCEPT ![i] = "await"]
    /\ running' = 0
    /\ UNCHANGED envVars
    /\ UNCHANGED lifeVars
    /\ UNCHANGED << loggerAttached, instr, now, at, req, start, ctxState, provOut, callOut, res >>

\* the provider call completes and the tool function runs to its return
ToolEnd(i) ==
    /\ running = 0
    /\ phase[i] = "await"
    /\ \E out \in ProviderOutcomes(req[i].query) :
          /\ provOut' = [provOut EXCEPT ![i] = out]
          /\ callOut' = [callOut EXCEPT ![i] = search_tool(req[i].tool, req[i].query, out)]
          /\ res' = [res EXCEPT ![i] = search_tool(req[i].tool, req[i].query, out)]
          /\ trace' = [trace EXCEPT ![i] = @ \o search_tool_records(req[i].tool, out)]
    /\ running' = i
    /\ phase' = [phase EXCEPT ![i] = PhaseAfterReturn(at[i])]
    /\ at' = [at EXCEPT ![i] = @ - 1]
    /\ UNCHANGED envVars
    /\ UNCHANGED lifeVars
    /\ UNCHANGED << loggerAttached, instr, now, req, start, ctxState >>

\* the caller cancels the invocation while it waits for the provider: the
\* cancellation is thrown at the tool's await and the stack unwinds
Cancel(i) ==
    /\ running = 0
    /\ phase[i] = "await"
    /\ callOut' = [callOut EXCEPT ![i] = search_tool(req[i].tool, req[i].query, Raise(CancelledFault))]
    /\ res' = [res EXCEPT ![i] = search_tool(req[i].tool, req[i].query, Raise(CancelledFault))]
    /\ trace' = [trace EXCEPT ![i] = (@ \o << Ev("cancel", "caller") >>)
                                        \o search_tool_records(req[i].tool, Raise(CancelledFault))]
    /\ running' = i
    /\ phase' = [phase EXCEPT ![i] = PhaseAfterReturn(at[i])]
    /\ at' = [at EXCEPT ![i] = @ - 1]
    /\ UNCHANGED envVars
    /\ UNCHANGED lifeVars
    /\ UNCHANGED << loggerAttached, instr, now, req, start, ctxState, provOut >>

LoggingExit(i) ==
    /\ Up(i, "LoggingMiddleware")
    /\ trace' = [trace EXCEPT ![i] = (@ \o LoggingExitRecords(loggerAttached, res[i], ctxState[i], instr))
                                        \o << Ev("exit", "LoggingMiddleware") >>]
    /\ res' = [res EXCEPT ![i] = LoggingResult(@, instr)]
    /\ phase' = [phase EXCEPT ![i] = PhaseAfterReturn(at[i])]
    /\ at' = [at EXCEPT ![i] = @ - 1]
    /\ UNCHANGED envVars
    /\ UNCHANGED lifeVars
    /\ UNCHANGED << loggerAttached, instr, now, running, req, start, ctxState, provOut, callOut >>

TimingExit(i) ==
    /\ Up(i, "TimingMiddleware")
    /\ trace' = [trace EXCEPT ![i] = (@ \o TimingRecords(now, instr))
                                        \o << Ev("exit", "TimingMiddleware") >>]
    /\ ctxState' = TimingState(ctxState, i, now, start[i], instr)
    /\ res' = [res EXCEPT ![i] = TimingResult(@, instr)]
    /\ phase' = [phase EXCEPT ![i] = PhaseAfterReturn(at[i])]
    /\ at' = [at EXCEPT ![i] = @ - 1]
    /\ UNCHANGED envVars
    /\ UNCHANGED lifeVars
    /\ UNCHANGED << loggerAttached, instr, now, running, req, start, provOut, callOut >>

ErrorHandlingExit(i) ==
    /\ Up(i, "ErrorHandlingMiddleware")
    /\ trace' = [trace EXCEPT ![i] =
          (@ \o (IF res[i].kind = "raise"
                 THEN ErrorHandlingRecords(loggerAttached, res[i].fault)
                 ELSE << >>))
             \o << Ev("exit", "ErrorHandlingMiddleware") >>]
    /\ res' = [res EXCEPT ![i] = ErrorHandlingResult(@)]
    /\ phase' = [phase EXCEPT ![i] = PhaseAfterReturn(at[i])]
    /\ at' = [at EXCEPT ![i] = @ - 1]
    /\ UNCHANGED envVars
    /\ UNCHANGED lifeVars
    /\ UNCHANGED << loggerAttached, instr, now, running, req, start, ctxState, provOut, callOut >>

\* the caller has the outcome; the invocation's frame and context are dropped
Finish(i) ==
    /\ running = i
    /\ phase[i] = "done"
    /\ running' = 0
    /\ phase' = [phase EXCEPT ![i] = "idle"]
    /\ req' = [req EXCEPT ![i] = NoReq]
    /\ start' = [start EXCEPT ![i] = 0]
    /\ ctxState' = [ctxState EXCEPT ![i] = << >>]
    /\ provOut' = [provOut EXCEPT ![i] = NoOutcome]
    /\ callOut' = [callOut EXCEPT ![i] = NoOutcome]
    /\ res' = [res EXCEPT ![i] = NoOutcome]
    /\ trace' = [trace EXCEPT ![i] = << >>]
    /\ UNCHANGED envVars
    /\ UNCHANGED lifeVars
    /\ UNCHANGED << loggerAttached, instr, now, at >>

\* the monotonic clock advances
Tick ==
    /\ now < MaxClock
    /\ now' = now + 1
    /\ UNCHANGED envVars
    /\ UNCHANGED lifeVars
    /\ UNCHANGED << loggerAttached, instr, running, phase, at, req, start, ctxState,
                    provOut, callOut, res, trace >>

Next ==
    \/ \E i \in Inv : CallTool(i)
    \/ \E i \in Inv : ErrorHandlingEnter(i)
    \/ \E i \in Inv : TimingEnter(i)
    \/ \E i \in Inv : LoggingEnter(i)
    \/ \E i \in Inv : DispatchInvalid(i)
    \/ \E i \in Inv : ToolBegin(i)
    \/ \E i \in Inv : ToolEnd(i)
    \/ \E i \in Inv : Cancel(i)
    \/ \E i \in Inv : LoggingExit(i)
    \/ \E i \in Inv : TimingExit(i)
    \/ \E i \in Inv : ErrorHandlingExit(i)
    \/ \E i \in Inv : Finish(i)
    \/ Tick

Spec == Init /\ [][Next]_vars

SpecInstr == InitInstr /\ [][Next]_vars

\* ------------------------------------------------------------------------
\* The envelope builders called directly
\* ------------------------------------------------------------------------
\* most builder calls that log before the log is left alone
MaxLog == 2

BuilderQueries == {"weather today", ""}
DataValues == { PyVal("str", "OK"), PyVal("str", ""), PyVal("int", "0"), PyVal("bool", "False") }
DataOptions == {None} \cup { Some(d) : d \in DataValues }
ErrorOptions == {None, Some("")}
FuncNameOptions == {None, Some("search_web"), Some("")}
ExtraOptions == {NoExtra, [source |-> "tavily"]}
ContextOptions == { NoExtra,
                    [query |-> "weather today"],
                    [query |-> "", source |-> "tavily"],
                    [query |-> "weather today", source |-> "tavily"] }
HandledTools == {"search_web", "search_news"}

\* handle_error logs the fault twice
handle_error_records_twice(func_name, error) ==
    << LogRec("BaseMCPServer", "ERROR", "Error Occured Poine > " \o func_name \o " | Error Message : ", str(error)),
       LogRec("BaseMCPServer", "ERROR", "Error Occured Poine > " \o func_name \o " | Error Message : ", str(error)) >>

\* base_mcp_server.py, handle_error: self.logger.error(..., exc_info=True)
handle_error_records(func_name, error) ==
    << LogRec("BaseMCPServer", "ERROR", "Error Occured Poine > " \o func_name \o " | Error Message : ", str(error)) >>

\* base_server.py: self.create_standard_response(success=, query=, data=, error=, **extra)
CallCreateStandardResponse ==
    /\ \E success \in BOOLEAN, query \in BuilderQueries, data \in DataOptions,
          error \in ErrorOptions, extra \in ExtraOptions :
          bcall' = [fn |-> "create_standard_response",
                    args |-> [success |-> success, query |-> query, data |-> data,
                              error |-> error, extra |-> extra],
                    out |-> create_standard_response_call(success, query, data, error, extra)]
    /\ UNCHANGED blog
    /\ UNCHANGED chainVars
    /\ UNCHANGED lifeVars

\* base_server.py: self.create_error_response(error=, query=, func_name=, **extra)
CallCreateErrorResponse ==
    /\ \E error \in ProviderFaults, query \in BuilderQueries, func_name \in FuncNameOptions,
          extra \in ExtraOptions :
          bcall' = [fn |-> "create_error_response",
                    args |-> [error |-> error, query |-> query, func_name |-> func_name,
                              extra |-> extra],
                    out |-> create_error_response_call(error, query, func_name, extra)]
    /\ UNCHANGED blog
    /\ UNCHANGED chainVars
    /\ UNCHANGED lifeVars

\* base_mcp_server.py: self.create_standard_response(success=, query=, data=, error=, **kwargs)
CallMcpCreateStandardResponse ==
    /\ \E success \in BOOLEAN, query \in BuilderQueries, data \in DataOptions,
          error \in ErrorOptions, kwargs \in ExtraOptions :
          bcall' = [fn |-> "mcp_create_standard_response",
                    args |-> [success |-> success, query |-> query, data |-> data,
                              error |-> error, extra |-> kwargs],
                    out |-> Return(mcp_create_standard_response(success, query, data, error, kwargs))]
    /\ UNCHANGED blog
    /\ UNCHANGED chainVars
    /\ UNCHANGED lifeVars

\* base_mcp_server.py: await self.handle_error(func_name=, error=, **context)
CallHandleError ==
    /\ Len(blog) < MaxLog
    /\ \E func_name \in HandledTools, error \in ProviderFaults, context \in ContextOptions :
          /\ bcall' = [fn |-> "handle_error",
                       args |-> [func_name |-> func_name, error |-> error, context |-> context],
                       out |-> Return(handle_error(func_name, error, context))]
          /\ blog' = blog \o handle_error_records(func_name, error)
    /\ UNCHANGED chainVars
    /\ UNCHANGED lifeVars

InitEnvelope ==
    /\ loggerAttached = TRUE
    /\ instr = {}
    /\ InitInv

NextEnvelope ==
    \/ CallCreateStandardResponse
    \/ CallCreateErrorResponse
    \/ CallMcpCreateStandardResponse
    \/ CallHandleError

SpecEnvelope == InitEnvelope /\ [][NextEnvelope]_vars

\* ------------------------------------------------------------------------
\* Construction of servers, create_app and the /health route
\* ------------------------------------------------------------------------
\* The methods of each draft are taken as they run on an instance of a
\* subclass that implements the abstract methods.

\* most constructions per draft
MaxMade == 2
\* most create_app calls on one instance
MaxApps == 2

\* a handler added only when the logger has none
addHandler_once(handlers, draft) ==
    IF draft = "base_mcp_server.py" \/ handlers > 0 THEN handlers ELSE 1

\* __init__: base_server.py and base_server/base_server.py create a
\* StreamHandler and add it to logging.getLogger(<class name>);
\* base_mcp_server.py only looks the logger up
addHandler(handlers, draft) ==
    IF draft = "base_mcp_server.py" THEN handlers ELSE handlers + 1

\* create_app: the /health routes registered by one call. The first two
\* drafts apply @self.mcp.custom_route(...) to health_check when the flag
\* is unset; base_server/base_server.py calls custom_route(...) without
\* applying the decorator it returns, so health_check is never registered
health_routes(draft, flag) ==
    IF flag THEN 0
    ELSE IF draft = "base_server/base_server.py" THEN 0 ELSE 1

\* an HTTP request for a path without a route
NotFound == Fault("HTTPException", <<"404 Not Found">>)

\* GET /health on the app of a server with the given number of routes:
\* the envelope the handler of the draft builds
health_check(draft, routes) ==
    IF routes = 0 THEN Raise(NotFound)
    ELSE IF draft = "base_server.py"
         THEN Return(create_standard_response(TRUE, "MCP Server Health Check",
                                              Some(PyVal("str", "OK")), None))
         ELSE Return(mcp_create_standard_response(TRUE, "MCP Server Health check",
                                                  Some(PyVal("str", "OK")), None, NoExtra))

\* Logger.callHandlers: one line per handler of the logger
callHandlers(handlers, line) == [k \in 1..handlers |-> line]

\* a subclass of the draft is constructed (server.py: the module-level
\* create_app constructs one on every call)
Construct(d) ==
    /\ srv[d].made < MaxMade
    /\ srv' = [srv EXCEPT ![d] = [made |-> @.made + 1,
                                  handlers |-> addHandler(@.handlers, d),
                                  flag |-> FALSE, routes |-> 0, apps |-> 0]]
    /\ UNCHANGED << client, bcall, blog >>
    /\ UNCHANGED chainVars

\* server.create_app() on the latest instance
CreateApp(d) ==
    /\ srv[d].made > 0
    /\ srv[d].apps < MaxApps
    /\ srv' = [srv EXCEPT ![d].routes = @ + health_routes(d, srv[d].flag),
                          ![d].flag = TRUE,
                          ![d].apps = @ + 1]
    /\ UNCHANGED << client, bcall, blog >>
    /\ UNCHANGED chainVars

\* GET /health on an app of the latest instance
GetHealth(d) ==
    /\ srv[d].apps > 0
    /\ bcall' = [fn |-> "health_check", args |-> [draft |-> d],
                 out |-> health_check(d, srv[d].routes)]
    /\ UNCHANGED << srv, client, blog >>
    /\ UNCHANGED chainVars

\* one self.logger.info(...) of a stage or a tool of the latest instance
LogCall(d) ==
    /\ srv[d].made > 0
    /\ bcall' = [fn |-> "logger.info", args |-> [draft |-> d],
                 out |-> Return(callHandlers(srv[d].handlers, "Start Processing Tool Request"))]
    /\ UNCHANGED << srv, client, blog >>
    /\ UNCHANGED chainVars

InitServer ==
    /\ loggerAttached = TRUE
    /\ instr = {}
    /\ InitInv

NextServer ==
    \/ \E d \in Drafts : Construct(d)
    \/ \E d \in Drafts : CreateApp(d)
    \/ \E d \in Drafts : GetHealth(d)
    \/ \E d \in Drafts : LogCall(d)

SpecServer == InitServer /\ [][NextServer]_vars

\* ------------------------------------------------------------------------
\* The search client, the arguments of search_web, the stages of
\* base_server/base_server.py and the agent factories
\* ------------------------------------------------------------------------
PyNone == PyVal("NoneType", "None")

\* bool(value) is False
falsy(v) == v.repr \in {"None", "", "0", "[]", "False"}

\* os.environ.get("TAVILY_API_KEY"): unset, the placeholder, a key
EnvValues == {None, Some("INPUT_YOUR_API_KEY"), Some("tvly-key")}

\* utils/env_validator.py, get_env_variable: os.getenv(key, default)
get_env_variable(env, default) == IF env = None THEN default ELSE env[1]

\* client.py, TavilySearchClient.__init__: the key read from the
\* environment with the placeholder as default, a warning for the placeholder
TavilySearchClient(env) ==
    LET api_key == get_env_variable(env, "INPUT_YOUR_API_KEY")
    IN [out |-> Return([api_key |-> api_key]),
        log |-> IF api_key = "INPUT_YOUR_API_KEY"
                THEN << LogRec("client", "WARNING",
                               "Tavily API Key is not set. Please set TAVILY_API_KEY in env.", "") >>
                ELSE << >>]

\* `from ... import name` of a name the module does not define
ImportErrorFault == Fault("ImportError", <<"cannot import name">>)

\* tavily_search_client.py, TavilySearchAPI(): line 7 of the module imports
\* get_optional_env from utils/env_validator.py, which defines
\* get_env_variable only, so the module is never loaded and no TavilySearchAPI
\* is constructed, whatever the environment holds
TavilySearchAPI(env) == [out |-> Raise(ImportErrorFault), log |-> << >>]

\* the provider's answer to a key it does not know
InvalidKeyFault == Fault("InvalidAPIKeyError", <<"Unauthorized: missing or invalid API key.">>)

\* the provider call of client.search, for the key the client holds
ClientSearchOutcomes(api_key, query) ==
    IF api_key = "tvly-key" THEN ProviderOutcomes(query) ELSE { Raise(InvalidKeyFault) }

\* the keyword arguments of search_web in server.py
SearchWebArgs ==
    { [query |-> PyVal("str", q), search_depth |-> PyVal("str", "basic"), topic |-> tp,
       time_range |-> PyNone, start_date |-> PyNone, end_date |-> PyNone, days |-> dy,
       max_results |-> mr, include_domains |-> dm, exclude_domains |-> PyNone,
       include_answer |-> PyVal("bool", "False"), include_raw_content |-> PyNone,
       include_images |-> PyNone, timeout |-> PyVal("int", "60"), country |-> ct] :
         q \in {"weather today", ""},
         tp \in {PyNone, PyVal("str", ""), PyVal("str", "news")},
         dy \in {PyNone, PyVal("int", "0"), PyVal("int", "7")},
         mr \in {PyVal("int", "5"), PyVal("int", "0")},
         dm \in {PyNone, PyVal("list", "[]")},
         ct \in {PyNone, PyVal("str", "kr")} }

\* a client that fills in a default for every falsy argument
client_search_params_defaults(a) ==
    [k \in DOMAIN a |->
        IF k = "topic" /\ falsy(a[k]) THEN PyVal("str", "general")
        ELSE IF k = "max_results" /\ falsy(a[k]) THEN PyVal("int", "5")
        ELSE a[k]]

\* client.py, TavilySearchClient.search: search_params, the keyword
\* arguments of client.search(**search_params); `topic or "general"`
client_search_params(a) ==
    [k \in DOMAIN a |->
        IF k = "topic" THEN (IF falsy(a[k]) THEN PyVal("str", "general") ELSE a[k])
        ELSE a[k]]

\* server.py, search_web: every parameter handed to self.tavily_client.search
\* under its own name
search_web_params(a) ==
    client_search_params(
        [query |-> a.query, search_depth |-> a.search_depth, topic |-> a.topic,
         time_range |-> a.time_range, start_date |-> a.start_date, end_date |-> a.end_date,
         days |-> a.days, max_results |-> a.max_results,
         include_domains |-> a.include_domains, exclude_domains |-> a.exclude_domains,
         include_answer |-> a.include_answer, include_raw_content |-> a.include_raw_content,
         include_images |-> a.include_images, timeout |-> a.timeout, country |-> a.country])

\* base_server/base_server.py, raised when no logger is set
UserWarningFault == Fault("UserWarning", <<"Logger is not Setted in this MCP Server.">>)

\* what the stages of base_server/base_server.py can get from call_next
StageInner ==
    { Return(ProviderResult("weather today", <<"A">>)) }
        \cup { Raise(f) : f \in ProviderFaults } \cup { Raise(CancelledFault) }

\* base_server/base_server.py, ErrorHandlingMiddleware.on_call_tool: the
\* except branch logs and ends without a raise, so the coroutine returns
\* None; without a logger it raises UserWarning, which the inner
\* `except Exception as error: raise error` passes on
pkg_ErrorHandlingMiddleware(logger, r) ==
    IF r.kind = "return" THEN r
    ELSE IF ~CaughtByExcept(r.fault) THEN r
    ELSE IF logger THEN Return(PyNone)
    ELSE Raise(UserWarningFault)

pkg_ErrorHandlingRecords(logger, r) ==
    IF r.kind = "raise" /\ CaughtByExcept(r.fault) /\ logger
    THEN << LogRec("ErrorHandlingMiddleware", "ERROR", "Tool Error", str(r.fault)) >>
    ELSE << >>

\* base_server/base_server.py, TimingMiddelware.on_call_tool: the finally
\* block stores the duration; a failure of set_state is raised again from
\* inside the finally block and takes the place of the outcome of call_next
TimingMiddelware(r, fails) ==
    IF "set_state" \in fails THEN Raise(StateFault) ELSE r

\* the names agents/base/base_agent.py defines
BaseAgentNames == {"BaseGraphAgent"}

SyntaxErrorFault == Fault("SyntaxError", <<"keyword argument repeated: model">>)

Agents == {"TavilySearchAgent", "SimpleTavilyMCPAgent"}

\* loading the module of an agent class: tavily_search_agent.py line 8
\* imports BaseLangGraphAgent from agents/base/base_agent.py;
\* search_react_agent.py passes model= twice at lines 65-66
agent_module(cls) ==
    IF cls = "TavilySearchAgent"
    THEN (IF "BaseLangGraphAgent" \in BaseAgentNames THEN None ELSE Some(ImportErrorFault))
    ELSE Some(SyntaxErrorFault)

\* the tool lists the MCP client can deliver
LoadedTools == { << >>, <<"search_web">>, <<"search_web", "search_news", "search_finance">> }

\* await cls.create(): the constructor with auto_build=False builds nothing,
\* the tools are loaded, then build_graph runs once and creates the agent
\* node from self.tools
create(cls, loaded) ==
    IF agent_module(cls) # None
    THEN [out |-> Raise(agent_module(cls)[1]), builds |-> 0, nodeTools |-> None]
    ELSE [out |-> Return(cls), builds |-> 1, nodeTools |-> Some(loaded)]

\* TavilySearchClient() or TavilySearchAPI() with the environment as it is
ConstructClient ==
    /\ \E cls \in {"TavilySearchClient", "TavilySearchAPI"}, env \in EnvValues :
          LET made == IF cls = "TavilySearchClient" THEN TavilySearchClient(env)
                      ELSE TavilySearchAPI(env)
          IN client' = [cls |-> cls, env |-> env, out |-> made.out, log |-> made.log]
    /\ UNCHANGED << srv, bcall, blog >>
    /\ UNCHANGED chainVars

\* await client.search(query=...) on the client constructed last
ClientSearch ==
    /\ client.cls # "none"
    /\ client.out.kind = "return"
    /\ \E query \in BuilderQueries :
          \E o \in ClientSearchOutcomes(client.out.val.api_key, query) :
             bcall' = [fn |-> "search", args |-> [query |-> query], out |-> o]
    /\ UNCHANGED << srv, client, blog >>
    /\ UNCHANGED chainVars

\* the tool function search_web of server.py is called with keyword
\* arguments and reaches the provider call
CallSearchWeb ==
    /\ \E a \in SearchWebArgs :
          bcall' = [fn |-> "search_web", args |-> a, out |-> Return(search_web_params(a))]
    /\ UNCHANGED << srv, client, blog >>
    /\ UNCHANGED chainVars

\* ErrorHandlingMiddleware.on_call_tool of base_server/base_server.py around
\* a call_next with the given outcome
CallPkgErrorHandling ==
    /\ \E logger \in BOOLEAN, r \in StageInner :
          bcall' = [fn |-> "ErrorHandlingMiddleware",
                    args |-> [logger |-> logger, fails |-> {}, inner |-> r],
                    out |-> pkg_ErrorHandlingMiddleware(logger, r),
                    log |-> pkg_ErrorHandlingRecords(logger, r)]
    /\ UNCHANGED << srv, client, blog >>
    /\ UNCHANGED chainVars

\* TimingMiddelware.on_call_tool of base_server/base_server.py around a
\* call_next with the given outcome
CallPkgTiming ==
    /\ \E fails \in SUBSET {"set_state"}, r \in StageInner :
          bcall' = [fn |-> "TimingMiddelware",
                    args |-> [logger |-> TRUE, fails |-> fails, inner |-> r],
                    out |-> TimingMiddelware(r, fails),
                    log |-> << >>]
    /\ UNCHANGED << srv, client, blog >>
    /\ UNCHANGED chainVars

\* await <agent class>.create()
CallCreate ==
    /\ \E cls \in Agents, loaded \in LoadedTools :
          bcall' = [fn |-> "create", args |-> [cls |-> cls, loaded |-> loaded],
                    out |-> create(cls, loaded).out,
                    builds |-> create(cls, loaded).builds,
                    nodeTools |-> create(cls, loaded).nodeTools]
    /\ UNCHANGED << srv, client, blog >>
    /\ UNCHANGED chainVars

InitCalls ==
    /\ loggerAttached = TRUE
    /\ instr = {}
    /\ InitInv

NextCalls ==
    \/ ConstructClient
    \/ ClientSearch
    \/ CallSearchWeb
    \/ CallPkgErrorHandling
    \/ CallPkgTiming
    \/ CallCreate

SpecCalls == InitCalls /\ [][NextCalls]_vars

\* ------------------------------------------------------------------------
\* Properties
\* ------------------------------------------------------------------------
Stages == { install_core_middlewares[k] : k \in 1..ChainLen }

IsPerf(e) == e.ev = "perf_counter"
IsStartRecord(e) ==
    e.ev = "log" /\ e.by = "LoggingMiddleware" /\ e.txt = "Start Processing Tool Request"
IsEndRecord(e) ==
    e.ev = "log" /\ e.by = "LoggingMiddleware" /\ e.txt = "Successfully Processed Tool Request"
IsChainError(e) == e.ev = "log" /\ e.lvl = "ERROR" /\ e.by \in Stages

\* positions of the events of invocation i that equal e
Pos(i, e) == { k \in DOMAIN trace[i] : trace[i][k] = e }
Happened(i, e) == Pos(i, e) # {}

\* C1: when the provider call of search_web, search_news or search_finance
\* raises, the tool returns (does not raise) the record with success = false,
\* the query of the call, error = str(fault) and func_name = the tool's name,
\* and no other key.
C1_ProviderFaultBecomesErrorEnvelope ==
    \A i \in Inv :
        provOut[i].kind = "raise" =>
            callOut[i] = Return([success |-> FALSE,
                                 query |-> req[i].query,
                                 error |-> str(provOut[i].fault),
                                 func_name |-> req[i].tool])

C1_Witness ==
    \E i \in Inv :
        /\ phase[i] = "done"
        /\ provOut[i] = Raise(Fault("KeyError", <<"results">>))
        /\ callOut[i].kind = "return"
        /\ callOut[i].val.error = "'results'"
        /\ req[i].tool = "search_finance"

\* C2 (as claimed): whatever the provider outcome, the tool returns an
\* envelope with a boolean success field: success = true with query and data
\* after a normal provider return, success = false with query and error after
\* a provider fault.
C2_EveryToolResultIsAnEnvelope ==
    \A i \in Inv :
        provOut[i].kind # "none" =>
            /\ callOut[i].kind = "return"
            /\ {"success", "query"} \subseteq DOMAIN callOut[i].val
            /\ callOut[i].val.query = req[i].query
            /\ callOut[i].val.success = (provOut[i].kind = "return")
            /\ provOut[i].kind = "return" => "data" \in DOMAIN callOut[i].val
            /\ provOut[i].kind = "raise" => "error" \in DOMAIN callOut[i].val

\* C3: a fault raised by the wrapped call travels up through every stage
\* and reaches the caller as the same fault; no stage replaces it by another
\* fault, a normal return or an envelope.
C3_FaultReachesCallerUnchanged ==
    \A i \in Inv :
        (callOut[i].kind = "raise" /\ phase[i] \in {"up", "done"}) => res[i] = callOut[i]

C3_Witness ==
    \E i \in Inv :
        /\ phase[i] = "done"
        /\ callOut[i] = Raise(DispatchFault)
        /\ res[i] = Raise(DispatchFault)
        /\ Happened(i, Ev("exit", "ErrorHandlingMiddleware"))

\* C4 (as claimed): when the wrapped call raises and the logger is attached,
\* the chain emits exactly one error-level record for the invocation, and it
\* carries the fault's message.
C4_ExactlyOneErrorRecord ==
    \A i \in Inv :
        (phase[i] = "done" /\ loggerAttached /\ callOut[i].kind = "raise") =>
            /\ Cardinality({ k \in DOMAIN trace[i] : IsChainError(trace[i][k]) }) = 1
            /\ \A k \in DOMAIN trace[i] :
                  IsChainError(trace[i][k]) => trace[i][k].arg = str(callOut[i].fault)

\* C5 (as claimed): with no logger attached, a call whose arguments validate
\* still reaches the tool function, and the caller receives the tool's value.
C5_NoLoggerStillReturns ==
    \A i \in Inv :
        (phase[i] = "done" /\ ~loggerAttached /\ req[i].valid) =>
            /\ callOut[i].kind = "return"
            /\ res[i] = callOut[i]

C7_EndRecordReportsMeasuredDuration ==
    \A i \in Inv :
        phase[i] = "done" =>
            \A k \in DOMAIN trace[i] :
                IsEndRecord(trace[i][k]) =>
                    /\ trace[i][k].arg # "None"
                    /\ trace[i][k].arg = Fmt(get_state(ctxState[i], "duration_ms"))

\* C8: once control has left the timing stage, on a return or on a fault,
\* the invocation's context state holds duration_ms, equal to the difference
\* of the two clock readings of the stage in milliseconds.
C8_TimingRecordsDurationOnEveryExit ==
    \A i \in Inv :
        Happened(i, Ev("exit", "TimingMiddleware")) =>
            LET p == SelectSeq(trace[i], IsPerf) IN
                /\ Len(p) = 2
                /\ "duration_ms" \in DOMAIN ctxState[i]
                /\ ctxState[i]["duration_ms"] = (p[2].t - p[1].t) * 1000

C8_Witness ==
    \E i \in Inv :
        /\ phase[i] = "up"
        /\ StageAt(at[i]) = "ErrorHandlingMiddleware"
        /\ res[i].kind = "raise"
        /\ "duration_ms" \in DOMAIN ctxState[i]
        /\ ctxState[i]["duration_ms"] = 2000

\* C9 (as claimed): the logging stage's "start" record is emitted before the
\* timing stage reads the clock, and the stages are entered in the order
\* logging, timing, error handling.
C9_LoggingThenTimingThenErrorHandling ==
    \A i \in Inv : \A a, b \in DOMAIN trace[i] :
        /\ (IsStartRecord(trace[i][a]) /\ IsPerf(trace[i][b])) => a < b
        /\ (trace[i][a] = Ev("enter", "LoggingMiddleware")
              /\ trace[i][b] = Ev("enter", "TimingMiddleware")) => a < b
        /\ (trace[i][a] = Ev("enter", "TimingMiddleware")
              /\ trace[i][b] = Ev("enter", "ErrorHandlingMiddleware")) => a < b

\* C9 (amended): the stages are entered in the order error handling, timing,
\* logging; the timing stage reads its start timestamp before the logging
\* stage emits its "start" record, and both happen before the tool runs.
C9_ErrorHandlingThenTimingThenLogging ==
    \A i \in Inv : \A a, b \in DOMAIN trace[i] :
        /\ (trace[i][a] = Ev("enter", "ErrorHandlingMiddleware")
              /\ trace[i][b] = Ev("enter", "TimingMiddleware")) => a < b
        /\ (trace[i][a] = Ev("enter", "TimingMiddleware")
              /\ trace[i][b] = Ev("enter", "LoggingMiddleware")) => a < b
        /\ IsStartRecord(trace[i][b]) => \E c \in 1..(b - 1) : IsPerf(trace[i][c])
        /\ ((IsStartRecord(trace[i][a]) \/ trace[i][a].ev = "enter")
              /\ trace[i][b].ev = "tool") => a < b
        /\ trace[i][b].ev = "tool" =>
              \A st \in Stages : Happened(i, Ev("enter", st))

C9_Witness ==
    \E i \in Inv :
        /\ phase[i] = "await"
        /\ \E a, b, c \in DOMAIN trace[i] :
              /\ a < b /\ b < c
              /\ IsPerf(trace[i][a])
              /\ IsStartRecord(trace[i][b])
              /\ trace[i][c].ev = "tool"

\* the events invocation i emits in a step
NewEvents(i) == { k \in DOMAIN trace'[i] : k > Len(trace[i]) }

\* C10: with several invocations in flight, a step of one invocation leaves
\* the context state, the timing local and the events of every other
\* invocation unchanged; the duration an invocation records is computed from
\* its own start timestamp, the duration it logs is the one read from its own
\* context state, and the metadata it logs is that of its own request.
C10_InvocationStateIsNotShared ==
    [][ \A i \in Inv :
          /\ (running # i /\ running' # i) =>
                (ctxState'[i] = ctxState[i] /\ start'[i] = start[i] /\ trace'[i] = trace[i])
          /\ \A k \in NewEvents(i) :
                /\ IsStartRecord(trace'[i][k]) => trace'[i][k].arg = FmtMeta(Meta(i))
                /\ IsEndRecord(trace'[i][k]) =>
                      trace'[i][k].arg = Fmt(get_state(ctxState[i], "duration_ms"))
                /\ trace'[i][k] = Ev("set_state", "TimingMiddleware") =>
                      /\ "duration_ms" \in DOMAIN ctxState'[i]
                      /\ ctxState'[i]["duration_ms"] = (now - start[i]) * 1000
          /\ ("duration_ms" \in DOMAIN ctxState'[i] /\ ctxState'[i] # ctxState[i]) =>
                \E k \in NewEvents(i) : trace'[i][k] = Ev("set_state", "TimingMiddleware")
      ]_vars

C10_Witness ==
    \E i, j \in Inv :
        /\ i # j
        /\ phase[i] = "done"
        /\ phase[j] = "await"
        /\ start[j] > start[i]
        /\ "duration_ms" \in DOMAIN ctxState[i]
        /\ ctxState[i]["duration_ms"] = 2000
        /\ \E k \in DOMAIN trace[i] : IsStartRecord(trace[i][k])

\* C11: when the caller cancels an invocation that waits in the delegate,
\* the timing stage has recorded duration_ms, computed from its two clock
\* readings, by the time the cancellation leaves it, and the caller receives
\* the cancellation itself.
C11_CancellationUnwindsThroughCleanup ==
    \A i \in Inv :
        Happened(i, Ev("cancel", "caller")) =>
            /\ res[i] = Raise(CancelledFault)
            /\ Happened(i, Ev("exit", "TimingMiddleware")) =>
                  /\ "duration_ms" \in DOMAIN ctxState[i]
                  /\ LET p == SelectSeq(trace[i], IsPerf) IN
                        ctxState[i]["duration_ms"] = (p[Len(p)].t - start[i]) * 1000
                  /\ Happened(i, Ev("set_state", "TimingMiddleware"))
            /\ phase[i] = "done" => Happened(i, Ev("exit", "TimingMiddleware"))

C11_Witness ==
    \E i \in Inv :
        /\ phase[i] = "done"
        /\ Happened(i, Ev("cancel", "caller"))
        /\ res[i] = Raise(CancelledFault)
        /\ "duration_ms" \in DOMAIN ctxState[i]
        /\ ctxState[i]["duration_ms"] = 1000

\* C12: an invocation has an "end" record if and only if the call the
\* logging stage delegates to returned normally; when that call raised (a
\* dispatch fault, a cancellation) or never ran, no "end" record is emitted.
C12_EndRecordIffDelegateReturned ==
    \A i \in Inv :
        /\ (\E k \in DOMAIN trace[i] : IsEndRecord(trace[i][k])) => callOut[i].kind = "return"
        /\ Happened(i, Ev("exit", "LoggingMiddleware")) =>
              ((\E k \in DOMAIN trace[i] : IsEndRecord(trace[i][k])) <=> callOut[i].kind = "return")
        /\ Cardinality({k \in DOMAIN trace[i] : IsEndRecord(trace[i][k])}) <= 1

\* C12 witness: the delegate raised, the logging stage was left, and the
\* finished invocation has a "start" record but no "end" record.
C12_Witness ==
    \E i \in Inv :
        /\ phase[i] = "done"
        /\ callOut[i].kind = "raise"
        /\ Happened(i, Ev("exit", "LoggingMiddleware"))
        /\ \E k \in DOMAIN trace[i] : IsStartRecord(trace[i][k])
        /\ ~ \E k \in DOMAIN trace[i] : IsEndRecord(trace[i][k])

\* C13: when the tool function returns a value, the outermost stage returns
\* exactly that value, and every finished inbound call with valid arguments
\* has invoked the tool function exactly once.
C13_ToolRunsOnceAndResultIsUntouched ==
    \A i \in Inv :
        /\ Cardinality(Pos(i, Ev("tool", req[i].tool))) <= 1
        /\ (phase[i] = "done" /\ req[i].valid) =>
              /\ Cardinality(Pos(i, Ev("tool", req[i].tool))) = 1
              /\ callOut[i].kind = "return" => res[i] = callOut[i]

\* C14: create_standard_response(success=True, query=q, data=d) of
\* base_server.py returns a record with success = true, query = q and
\* data = d, and a record without a data key when data is not supplied.
C14_SuccessBuilderKeepsQueryAndData ==
    (/\ bcall.fn = "create_standard_response"
     /\ bcall.args.success
     /\ bcall.args.error = None
     /\ DOMAIN bcall.args.extra = {}) =>
        /\ bcall.out.kind = "return"
        /\ LET r == bcall.out.val IN
              /\ r.success = TRUE
              /\ r.query = bcall.args.query
              /\ bcall.args.data = None => DOMAIN r = {"success", "query"}
              /\ bcall.args.data # None =>
                    /\ DOMAIN r = {"success", "query", "data"}
                    /\ r.data = bcall.args.data[1]

\* C14 witness: the builder was called with data "OK" and returned it under
\* the data key.
C14_Witness ==
    /\ bcall.fn = "create_standard_response"
    /\ bcall.args = [success |-> TRUE, query |-> "weather today",
                     data |-> Some(PyVal("str", "OK")), error |-> None, extra |-> NoExtra]
    /\ bcall.out = Return([success |-> TRUE, query |-> "weather today", data |-> PyVal("str", "OK")])

\* C15: create_standard_response(success=True, query=q, data=d) of
\* base_mcp_server.py, with d supplied, returns a record whose data key holds
\* d, with success = true and query = q.
C15_McpSuccessBuilderKeepsData ==
    (/\ bcall.fn = "mcp_create_standard_response"
     /\ bcall.args.success
     /\ bcall.args.data # None) =>
        /\ bcall.out.kind = "return"
        /\ bcall.out.val.success = TRUE
        /\ bcall.out.val.query = bcall.args.query
        /\ "data" \in DOMAIN bcall.out.val
        /\ bcall.out.val.data = bcall.args.data[1]

\* C16: create_error_response(error=e, query=q, func_name=f) of
\* base_server.py returns a record with success = false, query = q and
\* error = str(e), the message text and no other trace of the fault, and
\* with a func_name key exactly when f was supplied, then equal to f.
C16_ErrorBuilderKeepsMessageAndFuncName ==
    (bcall.fn = "create_error_response" /\ DOMAIN bcall.args.extra = {}) =>
        /\ bcall.out.kind = "return"
        /\ LET r == bcall.out.val IN
              /\ r.success = FALSE
              /\ r.query = bcall.args.query
              /\ r.error = str(bcall.args.error)
              /\ bcall.args.error = Fault("ValueError", <<"timeout">>) => r.error = "timeout"
              /\ bcall.args.func_name = None => DOMAIN r = {"success", "query", "error"}
              /\ bcall.args.func_name # None =>
                    /\ DOMAIN r = {"success", "query", "error", "func_name"}
                    /\ r.func_name = bcall.args.func_name[1]

\* C16 witness: the builder was called without func_name and returned a
\* record without that key, carrying the message of the fault.
C16_Witness ==
    /\ bcall.fn = "create_error_response"
    /\ bcall.args.func_name = None
    /\ bcall.args.error = Fault("ValueError", <<"timeout">>)
    /\ bcall.out = Return([success |-> FALSE, query |-> "weather today", error |-> "timeout"])

\* C17: handle_error(func_name=f, error=e, query=q) of base_mcp_server.py
\* returns an envelope with success = false, query = q, error = str(e) and
\* func_name = f.
C17_HandleErrorReturnsErrorEnvelope ==
    (bcall.fn = "handle_error" /\ "query" \in DOMAIN bcall.args.context) =>
        /\ bcall.out.kind = "return"
        /\ LET r == bcall.out.val IN
              /\ "success" \in DOMAIN r
              /\ r.success = FALSE
              /\ r.query = bcall.args.context["query"]
              /\ r.error = str(bcall.args.error)
              /\ r.func_name = bcall.args.func_name

\* C18: in the envelopes serialized by the builders of base_server.py the
\* required fields are always present with the value passed, and data,
\* error and func_name are present exactly when a value was supplied; a
\* supplied falsy value (False, 0, "") is kept as it is.
C18_OnlyUnsetFieldsAreDropped ==
    /\ (bcall.fn = "create_standard_response" /\ DOMAIN bcall.args.extra = {}) =>
          /\ bcall.out.kind = "return"
          /\ LET r == bcall.out.val
                 a == bcall.args
             IN /\ {"success", "query"} \subseteq DOMAIN r
                /\ DOMAIN r \subseteq {"success", "query", "data", "error"}
                /\ r.success = a.success
                /\ r.query = a.query
                /\ "data" \in DOMAIN r <=> a.data # None
                /\ "data" \in DOMAIN r => r.data = a.data[1]
                /\ "error" \in DOMAIN r <=> a.error # None
                /\ "error" \in DOMAIN r => r.error = a.error[1]
    /\ (bcall.fn = "create_error_response" /\ DOMAIN bcall.args.extra = {}) =>
          /\ bcall.out.kind = "return"
          /\ LET r == bcall.out.val
                 a == bcall.args
             IN /\ {"success", "query", "error"} \subseteq DOMAIN r
                /\ DOMAIN r \subseteq {"success", "query", "error", "func_name"}
                /\ r.query = a.query
                /\ "func_name" \in DOMAIN r <=> a.func_name # None
                /\ "func_name" \in DOMAIN r => r.func_name = a.func_name[1]

\* C18 witness: success False, an empty query, data 0 and an empty error
\* message were supplied and all four are in the serialized envelope.
C18_Witness ==
    /\ bcall.fn = "create_standard_response"
    /\ bcall.args.data = Some(PyVal("int", "0"))
    /\ bcall.out = Return([success |-> FALSE, query |-> "", data |-> PyVal("int", "0"), error |-> ""])

\* C19: both builders of base_server.py and handle_error of
\* base_mcp_server.py accept additional key/value pairs, and each pair is in
\* the serialized envelope with the same key and value.
C19_ExtraPairsAppearInTheEnvelope ==
    LET extra == IF bcall.fn = "handle_error"
                 THEN [k \in DOMAIN bcall.args.context \ {"query"} |-> bcall.args.context[k]]
                 ELSE bcall.args.extra
    IN bcall.fn \in {"create_standard_response", "create_error_response", "handle_error"} =>
          /\ bcall.out.kind = "return"
          /\ \A k \in DOMAIN extra :
                k \in DOMAIN bcall.out.val /\ bcall.out.val[k] = extra[k]

\* C20 as stated: no call of a builder, handle_error included, changes the
\* server's state, the context state or the log.
C20_BuildingAnEnvelopeIsPure ==
    [][blog' = blog /\ UNCHANGED chainVars]_vars

\* C20 amended: create_standard_response and create_error_response leave
\* the server's state, the context state and the log unchanged;
\* handle_error leaves the server's state and the context state unchanged
\* and appends exactly one error-level record, with the fault's message, to
\* the log.
C20_OnlyHandleErrorLogs ==
    [][/\ UNCHANGED chainVars
       /\ bcall'.fn \in {"create_standard_response", "create_error_response",
                         "mcp_create_standard_response"} => blog' = blog
       /\ bcall'.fn = "handle_error" =>
             /\ Len(blog') = Len(blog) + 1
             /\ SubSeq(blog', 1, Len(blog)) = blog
             /\ blog'[Len(blog')].lvl = "ERROR"
             /\ blog'[Len(blog')].arg = str(bcall'.args.error)]_vars

\* C20 witness: handle_error has logged one record and a later call of
\* create_error_response returned with the log still holding that record.
C20_Witness ==
    /\ bcall.fn = "create_error_response"
    /\ bcall.out.kind = "return"
    /\ Len(blog) = 1
    /\ blog[1].lvl = "ERROR"

\* the entries and exits of the stages, in the order they happened
StageMoves(i) == SelectSeq(trace[i], LAMBDA e : e.ev \in {"enter", "exit", "tool"})

\* C24: every invocation enters ErrorHandlingMiddleware, then
\* TimingMiddleware, then LoggingMiddleware, then the tool function, and
\* leaves them in the reverse order: what has happened so far is a prefix of
\* that nesting, with the tool function and a stage that raised on entry
\* left out when they did not run.
C24_TimingAroundLoggingInsideErrorHandling ==
    \A i \in Inv :
        LET m == StageMoves(i)
            depth(name) == CASE name = "ErrorHandlingMiddleware" -> 1
                             [] name = "TimingMiddleware" -> 2
                             [] name = "LoggingMiddleware" -> 3
                             [] OTHER -> 4
        IN /\ \A a, b \in DOMAIN m :
                  a < b =>
                     /\ (m[a].ev = "enter" /\ m[b].ev = "enter") => depth(m[a].by) < depth(m[b].by)
                     /\ (m[a].ev = "exit" /\ m[b].ev = "exit") => depth(m[a].by) > depth(m[b].by)
                     /\ m[a].ev = "exit" => m[b].ev = "exit"
                     /\ m[b].ev = "tool" => m[a].ev = "enter"
           /\ \A b \in DOMAIN m :
                  (m[b].ev \in {"enter", "tool"} /\ depth(m[b].by) > 1) =>
                     \E a \in 1..(b - 1) : m[a].ev = "enter" /\ depth(m[a].by) = depth(m[b].by) - 1
           /\ (phase[i] = "done" /\ \E b \in DOMAIN m : m[b].ev = "tool") =>
                  /\ Len(m) = 7
                  /\ m[5] = Ev("exit", "LoggingMiddleware")
                  /\ m[6] = Ev("exit", "TimingMiddleware")
                  /\ m[7] = Ev("exit", "ErrorHandlingMiddleware")

\* C24 witness: a finished invocation that went through the three stages,
\* the tool function and back.
C24_Witness ==
    \E i \in Inv :
        /\ phase[i] = "done"
        /\ Len(StageMoves(i)) = 7
        /\ StageMoves(i)[2] = Ev("enter", "TimingMiddleware")
        /\ StageMoves(i)[3] = Ev("enter", "LoggingMiddleware")
        /\ StageMoves(i)[4].ev = "tool"
        /\ StageMoves(i)[6] = Ev("exit", "TimingMiddleware")

\* C26: when the provider call of a search tool raises, the tool returns an
\* error envelope, so the chain sees a normal return: the error-handling
\* stage emits no error record and the logging stage emits its "end" record.
C26_ProviderFaultIsANormalReturnForTheChain ==
    \A i \in Inv :
        provOut[i].kind = "raise" =>
            /\ callOut[i].kind = "return"
            /\ callOut[i].val.success = FALSE
            /\ res[i] = callOut[i]
            /\ ~ \E k \in DOMAIN trace[i] : IsChainError(trace[i][k])
            /\ Happened(i, Ev("exit", "LoggingMiddleware")) =>
                  Cardinality({k \in DOMAIN trace[i] : IsEndRecord(trace[i][k])}) = 1

\* C26 witness: a finished invocation whose provider call raised and which
\* has an "end" record and no error record of a stage.
C26_Witness ==
    \E i \in Inv :
        /\ phase[i] = "done"
        /\ provOut[i] = Raise(Fault("ValueError", <<"timeout">>))
        /\ res[i].kind = "return"
        /\ \E k \in DOMAIN trace[i] : IsEndRecord(trace[i][k])
        /\ ~ \E k \in DOMAIN trace[i] : IsChainError(trace[i][k])

\* the provider calls invocation i has made
ProviderCalls(i) == Cardinality({k \in DOMAIN trace[i] : trace[i][k].ev = "provider"})

\* C29: an invocation whose tool function ran has made exactly one provider
\* call, whether the call returned, raised or is still pending; an
\* invocation whose tool function did not run has made none.
C29_OneProviderCallPerInvocation ==
    \A i \in Inv :
        /\ (\E k \in DOMAIN trace[i] : trace[i][k].ev = "tool") => ProviderCalls(i) = 1
        /\ (~ \E k \in DOMAIN trace[i] : trace[i][k].ev = "tool") => ProviderCalls(i) = 0

\* C29 witness: a finished invocation whose provider call raised, with one
\* provider call in its history.
C29_Witness ==
    \E i \in Inv :
        /\ phase[i] = "done"
        /\ provOut[i].kind = "raise"
        /\ ProviderCalls(i) = 1

\* C22: the /health handler registered by create_app, in each of the three
\* drafts, answers with the envelope {success: true, query: "MCP Server
\* Health Check", data: "OK"}.
C22_HealthReturnsTheFixedEnvelope ==
    bcall.fn = "health_check" =>
        bcall.out = Return([success |-> TRUE, query |-> "MCP Server Health Check",
                            data |-> PyVal("str", "OK")])

\* C25: after one or more create_app calls on a server instance, of any of
\* the three drafts, exactly one /health route is registered on it.
C25_HealthRouteRegisteredExactlyOnce ==
    \A d \in Drafts : srv[d].apps >= 1 => srv[d].routes = 1

\* C27: after k constructions of a subclass of base_server.py or of
\* base_server/base_server.py the logger named after the class holds k
\* handlers, and one log call is written k times.
C27_HandlersAccumulateWithConstructions ==
    [][\A d \in {"base_server.py", "base_server/base_server.py"} :
          /\ srv'[d].made = srv[d].made + 1 => srv'[d].handlers = srv[d].handlers + 1
          /\ srv'[d].made = srv[d].made => srv'[d].handlers = srv[d].handlers
          /\ srv'[d].handlers = srv'[d].made
          /\ (bcall' # bcall /\ bcall'.fn = "logger.info" /\ bcall'.args.draft = d) =>
                /\ Len(bcall'.out.val) = srv[d].made
                /\ \A k \in DOMAIN bcall'.out.val :
                      bcall'.out.val[k] = "Start Processing Tool Request"]_vars

\* C27 witness: the class was constructed twice and one log call produced
\* two lines.
C27_Witness ==
    /\ srv["base_server.py"].made = 2
    /\ srv["base_server.py"].handlers = 2
    /\ bcall.fn = "logger.info"
    /\ bcall.args.draft = "base_server.py"
    /\ bcall.out.val = << "Start Processing Tool Request", "Start Processing Tool Request" >>

\* C21: in ErrorHandlingMiddleware and TimingMiddelware of
\* base_server/base_server.py a fault raised by the wrapped tool leaves the
\* stage as the same fault, after ErrorHandlingMiddleware has logged it: it
\* is not turned into a normal return and not replaced by another fault.
C21_PkgStagesPassTheFaultOn ==
    (/\ bcall.fn \in {"ErrorHandlingMiddleware", "TimingMiddelware"}
     /\ bcall.args.inner.kind = "raise") =>
        /\ bcall.out = bcall.args.inner
        /\ (bcall.fn = "ErrorHandlingMiddleware" /\ CaughtByExcept(bcall.args.inner.fault)) =>
              /\ Len(bcall.log) = 1
              /\ bcall.log[1].lvl = "ERROR"

\* C23: constructing a search client, TavilySearchClient or TavilySearchAPI,
\* succeeds for every value of TAVILY_API_KEY, with exactly one warning
\* record when the key is unset or the placeholder and none otherwise.
C23_ClientConstructionNeverRaises ==
    client.cls # "none" =>
        /\ client.out.kind = "return"
        /\ client.env \in {None, Some("INPUT_YOUR_API_KEY")} =>
              /\ Len(client.log) = 1
              /\ client.log[1].lvl = "WARNING"
        /\ client.env \notin {None, Some("INPUT_YOUR_API_KEY")} => client.log = << >>

C30_CreateBuildsTheGraphOnceWithLoadedTools ==
    bcall.fn = "create" =>
        /\ bcall.out.kind = "return"
        /\ bcall.builds = 1
        /\ bcall.nodeTools = Some(bcall.args.loaded)

====
